---- MODULE Spec2Model ----
(***************************************************************************)
(* Model of lib/model.py of QuickFF: HarmonicModel, CoulombModel and       *)
(* electrostatics().                                                       *)
(*                                                                         *)
(* Real numbers (numpy floats) are modelled as exact rationals <<n, d>>    *)
(* in lowest terms with d > 0.  Arrays are sequences; the code's 0-based   *)
(* index k is position k+1 of the sequence.  A coordinate array of shape   *)
(* (N,3) is a sequence of N atoms, each a sequence of 3 rationals; a       *)
(* rank-4 Hessian [N,3,N,3] is kept as its (3N)x(3N) matrix, entry         *)
(* [i,a,j,b] at row 3i+a, column 3j+b (what reshape does in C order).      *)
(***************************************************************************)
EXTENDS Integers, Sequences, FiniteSets, TLC

VARIABLES
    \* HarmonicModel fields (model.py 29-33, 54-59)
    coords0, gradient, hess, reference, ridge, evals, evecs, ievals, ihess,
    \* CoulombModel fields (model.py 101-105)
    coords, charges, exclude_pairs, shift,
    \* arguments of electrostatics() (model.py 120)
    sample, exclude_types,
    \* the last call made and what it returned
    ret

hvars == <<coords0, gradient, hess, reference, ridge, evals, evecs, ievals, ihess>>
cvars == <<coords, charges, exclude_pairs, shift>>
evars == <<sample, exclude_types>>
vars == <<hvars, cvars, evars, ret>>

-----------------------------------------------------------------------------
(* Bounds *)

MaxAtoms == 2        \* HarmonicModel: atoms in the reference and in a query
MaxPairAtoms == 3    \* CoulombModel / electrostatics: atoms in a sample
MaxEig == 2          \* Hessian eigenvalues are drawn from -MaxEig..MaxEig
MaxRidge == 1        \* ridge is 0 or MaxRidge
MaxSpring == 1       \* spring is MaxSpring or the default

-----------------------------------------------------------------------------
(* Exact rational arithmetic standing for float arithmetic *)

RECURSIVE Gcd(_, _)
Gcd(a, b) == IF b = 0 THEN a ELSE Gcd(b, a % b)

IAbs(x) == IF x < 0 THEN -x ELSE x

Rat(n, d) ==
    LET s == IF d < 0 THEN -1 ELSE 1
        g == Gcd(IAbs(n), IAbs(d))
    IN  <<(s * n) \div g, (s * d) \div g>>

RI(k) == <<k, 1>>
Zero == <<0, 1>>
One == <<1, 1>>

\* a float that is not finite (inf, nan): what numpy yields for a division by zero
Inf == <<1, 0>>
IsFinite(x) == x[2] # 0

RAdd(x, y) ==
    IF x[2] = 0 \/ y[2] = 0 THEN Inf
    ELSE IF x[1] = 0 THEN y
    ELSE IF y[1] = 0 THEN x
    ELSE IF x[2] = 1 /\ y[2] = 1 THEN <<x[1] + y[1], 1>>
    ELSE LET g == Gcd(x[2], y[2])
         IN  Rat(x[1] * (y[2] \div g) + y[1] * (x[2] \div g), (x[2] \div g) * y[2])
RNeg(x) == IF x[2] = 0 THEN Inf ELSE <<-x[1], x[2]>>
RSub(x, y) == RAdd(x, RNeg(y))
RMul(x, y) ==
    IF x[2] = 0 \/ y[2] = 0 THEN Inf
    ELSE IF x[1] = 0 \/ y[1] = 0 THEN Zero
    ELSE IF x[2] = 1 /\ y[2] = 1 THEN <<x[1] * y[1], 1>>
    ELSE LET g1 == Gcd(IAbs(x[1]), y[2])
             g2 == Gcd(IAbs(y[1]), x[2])
         IN  <<(x[1] \div g1) * (y[1] \div g2), (x[2] \div g2) * (y[2] \div g1)>>
RAbs(x) == <<IAbs(x[1]), x[2]>>
\* x > y on floats; a comparison with a non-finite value is modelled as false
RGt(x, y) == x[2] # 0 /\ y[2] # 0 /\ x[1] * y[2] > y[1] * x[2]

\* 1.0/x for a numpy float64 x: division by zero does not raise, it yields inf
RInv(x) == IF x[1] = 0 \/ x[2] = 0 THEN Inf ELSE Rat(x[2], x[1])
RDiv(x, y) == RMul(x, RInv(y))

-----------------------------------------------------------------------------
(* numpy vectors and matrices *)

RECURSIVE SumTo(_, _)
\* sum of f[1..n]
SumTo(f, n) == IF n = 0 THEN Zero ELSE RAdd(SumTo(f, n - 1), f[n])

\* the sequence f with every element computed once (an array held in memory)
Arr(f) == f \o <<>>

Dot(u, v) == SumTo(Arr([k \in 1..Len(u) |-> RMul(u[k], v[k])]), Len(u))
MatVec(A, v) == Arr([r \in 1..Len(A) |-> Dot(A[r], v)])
Transpose(A) == Arr([c \in 1..Len(A[1]) |-> Arr([r \in 1..Len(A) |-> A[r][c]])])
MatMul(A, B) ==
    LET Bt == Transpose(B)
    IN  Arr([r \in 1..Len(A) |-> Arr([c \in 1..Len(Bt) |-> Dot(A[r], Bt[c])])])
Diag(w) ==
    Arr([r \in 1..Len(w) |-> Arr([c \in 1..Len(w) |-> IF r = c THEN w[r] ELSE Zero])])
VecAdd(u, v) == Arr([k \in 1..Len(u) |-> RAdd(u[k], v[k])])
MatAdd(A, B) == Arr([r \in 1..Len(A) |-> VecAdd(A[r], B[r])])
Scale(w, v) == Arr([k \in 1..Len(v) |-> RMul(w, v[k])])
Column(M, i) == Arr([r \in 1..Len(M) |-> M[r][i]])
ZeroVec(n) == Arr([k \in 1..n |-> Zero])
ZeroMat(n) == Arr([r \in 1..n |-> ZeroVec(n)])

\* array.reshape([3*Natoms]) of an (M,3) array; fails unless 3M = 3*Natoms
Flatten(a) ==
    Arr([k \in 1..(3 * Len(a)) |-> a[((k - 1) \div 3) + 1][((k - 1) % 3) + 1]])
\* vector.reshape([Natoms, 3])
Unflatten(v) ==
    Arr([i \in 1..(Len(v) \div 3) |-> Arr([a \in 1..3 |-> v[3 * (i - 1) + a]])])

-----------------------------------------------------------------------------
(* Results of a call: a value, or an exception surfaced to the caller *)

Ok(v) == [ok |-> TRUE, val |-> v]
Raise == [ok |-> FALSE, val |-> <<>>]

NoCall == [op |-> "none", args |-> <<>>, status |-> "ok", value |-> <<>>, locals |-> <<>>]
Call(op, args, r, locals) ==
    [op |-> op, args |-> args, status |-> IF r.ok THEN "ok" ELSE "error",
     value |-> r.val, locals |-> IF r.ok THEN locals ELSE <<>>]

-----------------------------------------------------------------------------
(* numpy.linalg.eigh, on the matrices whose eigen-decomposition is rational *)

Identity(n) == Diag([k \in 1..n |-> One])
\* the rotation by the angle with cosine 3/5 in the plane of the first two
\* degrees of freedom
Givens(n) ==
    Arr([r \in 1..n |-> Arr([c \in 1..n |->
        IF r <= 2 /\ c <= 2
        THEN (IF r = c THEN Rat(3, 5) ELSE IF r = 1 THEN Rat(-4, 5) ELSE Rat(4, 5))
        ELSE IF r = c THEN One ELSE Zero])])
RotBasis(n) == {Identity(n), Givens(n)}

IsDiagonal(A) == \A r \in 1..Len(A) : \A c \in 1..Len(A) : r # c => A[r][c] = Zero

RECURSIVE SortOrder(_, _)
\* the indices of S in ascending order of d, ties by index
SortOrder(d, S) ==
    IF S = {} THEN <<>>
    ELSE LET i == CHOOSE i \in S : \A j \in S :
                    RGt(d[j], d[i]) \/ (d[i] = d[j] /\ i <= j)
         IN  <<i>> \o SortOrder(d, S \ {i})

\* every (eigenvalues ascending, eigenvectors as columns) that eigh may return for
\* the symmetric matrix H; empty when H has no decomposition over RotBasis
Eigh(H) ==
    LET n == Len(H)
        cand == {<<V, MatMul(Transpose(V), MatMul(H, V))>> : V \in RotBasis(n)}
    IN  { LET V == c[1]
              L == c[2]
              p == SortOrder(Arr([k \in 1..n |-> L[k][k]]), 1..n)
          IN  <<Arr([i \in 1..n |-> L[p[i]][p[i]]]),
                Arr([r \in 1..n |-> Arr([i \in 1..n |-> V[r][p[i]]])])>>
          : c \in {d \in cand : IsDiagonal(d[2])} }

-----------------------------------------------------------------------------
(* HarmonicModel *)

\* coords - self.coords0 with numpy broadcasting of shapes (M,3) and (N,3):
\* equal lengths subtract elementwise, a length of 1 is stretched to the other
\* length, any other pair of lengths raises ValueError
NpSub(a, b) ==
    IF Len(a) = Len(b)
    THEN Ok(Arr([i \in 1..Len(a) |-> Arr([k \in 1..3 |-> RSub(a[i][k], b[i][k])])]))
    ELSE IF Len(a) = 1
    THEN Ok(Arr([i \in 1..Len(b) |-> Arr([k \in 1..3 |-> RSub(a[1][k], b[i][k])])]))
    ELSE IF Len(b) = 1
    THEN Ok(Arr([i \in 1..Len(a) |-> Arr([k \in 1..3 |-> RSub(a[i][k], b[1][k])])]))
    ELSE Raise

\* a.reshape([3*Natoms]): raises ValueError unless a holds 3*Natoms numbers
Reshape3N(a, Natoms) == IF Len(a) = Natoms THEN Ok(Flatten(a)) ELSE Raise

\* Dx with the sign of coords0 wrong: (coords + self.coords0)
Dx_adds(c) ==
    LET d == NpSub(c, Arr([i \in 1..Len(coords0) |->
                 Arr([k \in 1..3 |-> RNeg(coords0[i][k])])]))
    IN  IF d.ok THEN Reshape3N(d.val, Len(coords0)) ELSE Raise

\* dx = (coords - self.coords0).reshape([3*Natoms])
Dx(c) ==
    LET d == NpSub(c, coords0)
    IN  IF d.ok THEN Reshape3N(d.val, Len(coords0)) ELSE Raise

Harmonic_get_energy(c) ==
    LET dx == Dx(c)
    IN  IF ~dx.ok THEN Raise
        ELSE Ok(RAdd(RAdd(reference, Dot(Flatten(gradient), dx.val)),
                     RMul(Rat(1, 2), Dot(dx.val, MatVec(hess, dx.val)))))

Harmonic_get_gradient(c) ==
    LET dx == Dx(c)
    IN  IF ~dx.ok THEN Raise
        ELSE Ok(Unflatten(VecAdd(Flatten(gradient), MatVec(hess, dx.val))))

Harmonic_get_hessian(c) == Ok(hess)

\* the loop of diagonalize_hess with abs(eigval) >= self.ridge as its test
diagonalize_ievals_ge(ev, rdg) ==
    Arr([i \in 1..Len(ev) |-> IF ~RGt(rdg, RAbs(ev[i])) THEN RInv(ev[i]) ELSE Zero])

\* the loop of diagonalize_hess over the eigenvalues
diagonalize_ievals(ev, rdg) ==
    Arr([i \in 1..Len(ev) |-> IF RGt(RAbs(ev[i]), rdg) THEN RInv(ev[i]) ELSE Zero])

\* np.dot(evecs, np.dot(np.diag(ievals), evecs.T))
PseudoInverse(vecs, iev) == MatMul(vecs, MatMul(Diag(iev), Transpose(vecs)))

\* spring*np.identity(3*Natoms)
SpringIdentity(spring, n) ==
    Arr([r \in 1..n |-> Arr([c \in 1..n |-> RMul(spring, IF r = c THEN One ELSE Zero)])])

\* the loop leaving after its first index
ClearFree_first_only(D, free_indices) ==
    IF free_indices = <<>> THEN D
    ELSE LET i == Head(free_indices) + 1
         IN  [D EXCEPT ![i][i] = Zero]

RECURSIVE ClearFree(_, _)
\* for i in free_indices: D[i,i] = 0.0
ClearFree(D, free_indices) ==
    IF free_indices = <<>> THEN D
    ELSE LET i == Head(free_indices) + 1
         IN  ClearFree([D EXCEPT ![i][i] = Zero], Tail(free_indices))

Harmonic_get_constrained_hess(free_indices, spring) ==
    LET D == ClearFree(SpringIdentity(spring, 3 * Len(coords0)), free_indices)
    IN  Ok(MatAdd(hess, D))

\* the loop of get_constrained_ihess over the eigenvalues
constrained_ievals(ev, rdg) ==
    Arr([i \in 1..Len(ev) |-> IF RGt(RAbs(ev[i]), rdg) THEN RInv(ev[i]) ELSE Zero])

\* dec is what eigh returned for the constrained Hessian
Harmonic_get_constrained_ihess(free_indices, spring, dec) ==
    Ok(PseudoInverse(dec[2], constrained_ievals(dec[1], ridge)))

-----------------------------------------------------------------------------
(* Inputs of the HarmonicModel checks *)

\* coordinate arrays of M atoms: atoms on a line, and the same atoms displaced
Line(M) == Arr([i \in 1..M |-> <<RI(i), Zero, Zero>>])
Bent(M) == Arr([i \in 1..M |-> <<RI(i + 1), Rat(-1, 2), RI(i * i)>>])
CoordArrays(M) == {Line(M), Bent(M)}

Gradients(N) == {Arr([i \in 1..N |-> Arr([a \in 1..3 |-> RI(i - a)])])}
References == {Rat(-1, 2)}
Ridges == {Zero, RI(MaxRidge)}
DefaultSpring == 10      \* spring=10.0*kjmol/angstrom**2, in those units
Springs == {RI(MaxSpring), RI(DefaultSpring)}
\* free_indices: the first hi degrees of freedom, or all from lo on
FreeLists(n) ==
    {Arr([k \in 1..hi |-> k - 1]) : hi \in 0..n} \cup
    {Arr([k \in 1..(n - lo) |-> lo + k - 1]) : lo \in 1..(n - 1)}

\* spectra: one eigenvalue lo of either sign and all others hi >= 0
Spectra(n) ==
    {Arr([k \in 1..n |-> RI(IF k = 1 THEN lo ELSE hi)]) :
        lo \in (-MaxEig)..MaxEig, hi \in 0..MaxEig}
\* symmetric matrices V diag(s) V^T
Hessians(n) ==
    {MatMul(V, MatMul(Diag(s), Transpose(V))) : V \in RotBasis(n), s \in Spectra(n)}

NoHarmonic ==
    /\ coords0 = <<>> /\ gradient = <<>> /\ hess = <<>> /\ reference = Zero
    /\ ridge = Zero /\ evals = <<>> /\ evecs = <<>> /\ ievals = <<>> /\ ihess = <<>>
NoCoulomb == coords = <<>> /\ charges = <<>> /\ exclude_pairs = <<>> /\ shift = Zero
NoSample == sample = <<>> /\ exclude_types = <<>>

\* HarmonicModel.__init__, which ends in diagonalize_hess()
HarmonicInit ==
    \E N \in 1..MaxAtoms :
    \E c0 \in {Line(N)}, g \in Gradients(N), H \in Hessians(3 * N),
       ref \in References, rdg \in Ridges :
    \E dec \in Eigh(H) :
        /\ coords0 = c0
        /\ gradient = g
        /\ hess = H
        /\ reference = ref
        /\ ridge = rdg
        /\ evals = dec[1]
        /\ evecs = dec[2]
        /\ ievals = diagonalize_ievals(dec[1], rdg)
        /\ ihess = PseudoInverse(dec[2], diagonalize_ievals(dec[1], rdg))

\* a caller may pass an array of any atom count
Queries == UNION {CoordArrays(M) : M \in 1..(MaxAtoms + 1)}

GetEnergy ==
    /\ ret = NoCall
    /\ \E c \in Queries :
        /\ ret' = Call("get_energy", c, Harmonic_get_energy(c), <<>>)
        /\ UNCHANGED <<hvars, cvars, evars>>

GetGradient ==
    /\ ret = NoCall
    /\ \E c \in Queries :
        /\ ret' = Call("get_gradient", c, Harmonic_get_gradient(c), <<>>)
        /\ UNCHANGED <<hvars, cvars, evars>>

GetHessian ==
    /\ ret = NoCall
    /\ \E c \in Queries :
        /\ ret' = Call("get_hessian", c, Harmonic_get_hessian(c), <<>>)
        /\ UNCHANGED <<hvars, cvars, evars>>

GetConstrainedHess ==
    /\ ret = NoCall
    /\ \E f \in FreeLists(3 * Len(coords0)), s \in Springs :
        /\ ret' = Call("get_constrained_hess", <<f, s>>,
                       Harmonic_get_constrained_hess(f, s), <<>>)
        /\ UNCHANGED <<hvars, cvars, evars>>

\* get_constrained_ihess storing its result in self.ihess
GetConstrainedIhess_caches ==
    /\ ret = NoCall
    /\ \E f \in FreeLists(3 * Len(coords0)), s \in Springs :
       \E dec \in Eigh(Harmonic_get_constrained_hess(f, s).val) :
        /\ ret' = Call("get_constrained_ihess", <<f, s>>,
                       Harmonic_get_constrained_ihess(f, s, dec),
                       [evals |-> dec[1], evecs |-> dec[2],
                        ievals |-> constrained_ievals(dec[1], ridge)])
        /\ ihess' = Harmonic_get_constrained_ihess(f, s, dec).val
        /\ UNCHANGED <<coords0, gradient, hess, reference, ridge, evals, evecs, ievals,
                       cvars, evars>>

GetConstrainedIhess ==
    /\ ret = NoCall
    /\ \E f \in FreeLists(3 * Len(coords0)), s \in Springs :
       \E dec \in Eigh(Harmonic_get_constrained_hess(f, s).val) :
        /\ ret' = Call("get_constrained_ihess", <<f, s>>,
                       Harmonic_get_constrained_ihess(f, s, dec),
                       [evals |-> dec[1], evecs |-> dec[2],
                        ievals |-> constrained_ievals(dec[1], ridge)])
        /\ UNCHANGED <<hvars, cvars, evars>>

\* the caller takes the returned value (or handles the exception); the next call
\* can then be made
Return ==
    /\ ret # NoCall
    /\ ret' = NoCall
    /\ UNCHANGED <<hvars, cvars, evars>>

HInit == HarmonicInit /\ NoCoulomb /\ NoSample /\ ret = NoCall
HNext ==
    \/ GetEnergy \/ GetGradient \/ GetHessian
    \/ GetConstrainedHess \/ GetConstrainedIhess
    \/ Return
SpecHarmonic == HInit /\ [][HNext]_vars

-----------------------------------------------------------------------------
(* The distance primitive IC([i, j], bond_length): value, gradient and Hessian *)
(* of the distance of atoms i and j (0-based) with respect to all 3N          *)
(* coordinates.                                                                *)

ISqrt(k) == CHOOSE s \in 0..k : s * s = k
IsSquare(k) == \E s \in 0..k : s * s = k
\* the square root of a rational that is the square of a rational
RSqrt(x) == <<ISqrt(x[1]), ISqrt(x[2])>>
IsRSquare(x) == x[1] >= 0 /\ IsSquare(x[1]) /\ IsSquare(x[2])

Delta(i, j, x) == Arr([a \in 1..3 |-> RSub(x[i + 1][a], x[j + 1][a])])
Dist2(i, j, x) == Dot(Delta(i, j, x), Delta(i, j, x))

bond_value(i, j, x) == RSqrt(Dist2(i, j, x))

\* d r / d x: (x_i - x_j)/r on atom i, its negative on atom j, 0 on other atoms
bond_grad(i, j, x) ==
    LET r == bond_value(i, j, x)
        u == Arr([a \in 1..3 |-> RDiv(Delta(i, j, x)[a], r)])
    IN  Arr([k \in 1..(3 * Len(x)) |->
            LET at == (k - 1) \div 3
                a == ((k - 1) % 3) + 1
            IN  IF at = i THEN u[a] ELSE IF at = j THEN RNeg(u[a]) ELSE Zero])

\* d2 r / dx dx: (1 - u u^T)/r on the blocks (i,i) and (j,j), its negative on the
\* blocks (i,j) and (j,i), 0 elsewhere
bond_hess(i, j, x) ==
    LET r == bond_value(i, j, x)
        u == Arr([a \in 1..3 |-> RDiv(Delta(i, j, x)[a], r)])
        B == Arr([a \in 1..3 |-> Arr([b \in 1..3 |->
                 RDiv(RSub(IF a = b THEN One ELSE Zero, RMul(u[a], u[b])), r)])])
    IN  Arr([k \in 1..(3 * Len(x)) |-> Arr([l \in 1..(3 * Len(x)) |->
            LET ak == (k - 1) \div 3
                al == (l - 1) \div 3
                a == ((k - 1) % 3) + 1
                b == ((l - 1) % 3) + 1
            IN  IF {ak, al} \subseteq {i, j}
                THEN (IF ak = al THEN B[a][b] ELSE RNeg(B[a][b]))
                ELSE Zero])])

-----------------------------------------------------------------------------
(* CoulombModel *)

\* p in L, for a Python list L of lists
InList(p, L) == \E k \in 1..Len(L) : L[k] = p

\* [i,j] in self.exclude_pairs or [j,i] in self.exclude_pairs
Coulomb_excluded(i, j, pairs) == InList(<<i, j>>, pairs) \/ InList(<<j, i>>, pairs)

RECURSIVE CoulombInner(_, _, _, _, _)
\* for j, qj in enumerate(self.charges), from j on, for one i
CoulombInner(self, c, i, j, energy) ==
    IF j = Len(self.charges) THEN energy
    ELSE CoulombInner(self, c, i, j + 1,
            IF j <= i THEN energy
            ELSE IF Coulomb_excluded(i, j, self.exclude_pairs) THEN energy
            ELSE RAdd(energy, RDiv(RMul(self.charges[i + 1], self.charges[j + 1]),
                                   bond_value(i, j, c))))

RECURSIVE CoulombOuter(_, _, _, _)
\* for i, qi in enumerate(self.charges), from i on
CoulombOuter(self, c, i, energy) ==
    IF i = Len(self.charges) THEN energy
    ELSE CoulombOuter(self, c, i + 1, CoulombInner(self, c, i, 0, energy))

\* get_energy with energy += self.shift
Coulomb_get_energy_adds_shift(self, c, use_shift) ==
    CoulombOuter(self, c, 0, IF use_shift THEN RAdd(Zero, self.shift) ELSE Zero)

Coulomb_get_energy(self, c, use_shift) ==
    CoulombOuter(self, c, 0, IF use_shift THEN RSub(Zero, self.shift) ELSE Zero)

\* the object while __init__ runs: self.shift is not set yet
Unset == Inf
NewCoulomb(c, q, pairs) == [coords |-> c, charges |-> q, exclude_pairs |-> pairs, shift |-> Unset]
Self == [coords |-> coords, charges |-> charges, exclude_pairs |-> exclude_pairs, shift |-> shift]

-----------------------------------------------------------------------------
(* electrostatics *)

\* what one pair adds to forces: -qs[i]*qs[j]/(r**2)*qgrad
PairForces(smp, i, j) ==
    LET r == bond_value(i, j, smp.coordinates)
        f == RDiv(RMul(RNeg(smp.ac[i + 1]), smp.ac[j + 1]), RMul(r, r))
    IN  Scale(f, bond_grad(i, j, smp.coordinates))

\* what one pair adds to hess:
\* qs[i]*qs[j]/(r**2)*(2.0/r*np.outer(qgrad, qgrad) - bond.hess(...))
PairHess(smp, i, j) ==
    LET r == bond_value(i, j, smp.coordinates)
        g == bond_grad(i, j, smp.coordinates)
        Hb == bond_hess(i, j, smp.coordinates)
        f == RDiv(RMul(smp.ac[i + 1], smp.ac[j + 1]), RMul(r, r))
        t == RDiv(RI(2), r)
    IN  Arr([k \in 1..Len(g) |-> Arr([l \in 1..Len(g) |->
            RMul(f, RSub(RMul(t, RMul(g[k], g[l])), Hb[k][l]))])])

\* if atypes[i] in exclude_types: continue
elec_skip_atom(smp, types, i) == InList(smp.ffatypes[i + 1], types)

\* the two tests of the inner loop, without the test of [j,i]
elec_skip_pair_one_order(smp, pairs, types, i, j) ==
    \/ InList(smp.ffatypes[j + 1], types)
    \/ InList(<<i, j>>, pairs)

\* the two tests of the inner loop, without the test of atypes[j]
elec_skip_pair_no_type(smp, pairs, types, i, j) ==
    InList(<<i, j>>, pairs) \/ InList(<<j, i>>, pairs)

\* if atypes[j] in exclude_types: continue
\* if [i,j] in exclude_pairs or [j,i] in exclude_pairs: continue
elec_skip_pair(smp, pairs, types, i, j) ==
    \/ InList(smp.ffatypes[j + 1], types)
    \/ InList(<<i, j>>, pairs) \/ InList(<<j, i>>, pairs)

RECURSIVE ElecInner(_, _, _, _, _, _)
\* for j in xrange(i), from j on; acc is <<forces, hess>>
ElecInner(smp, pairs, types, i, j, acc) ==
    IF j = i THEN acc
    ELSE ElecInner(smp, pairs, types, i, j + 1,
            IF elec_skip_pair(smp, pairs, types, i, j) THEN acc
            ELSE <<VecAdd(acc[1], PairForces(smp, i, j)),
                   MatAdd(acc[2], PairHess(smp, i, j))>>)

RECURSIVE ElecOuter(_, _, _, _, _)
\* for i in xrange(len(qs)), from i on
ElecOuter(smp, pairs, types, i, acc) ==
    IF i = Len(smp.ac) THEN acc
    ELSE ElecOuter(smp, pairs, types, i + 1,
            IF elec_skip_atom(smp, types, i) THEN acc
            ELSE ElecInner(smp, pairs, types, i, 0, acc))

\* returns <<forces, hess>>
electrostatics(smp, pairs, types) ==
    ElecOuter(smp, pairs, types, 0,
              <<ZeroVec(3 * Len(smp.ac)), ZeroMat(3 * Len(smp.ac))>>)

-----------------------------------------------------------------------------
(* Inputs of the CoulombModel and electrostatics checks *)

P3(x, y, z) == <<RI(x), RI(y), RI(z)>>
\* atom positions; a geometry takes some of them, in this order
Points == <<P3(0, 0, 0), P3(3, 0, 0), P3(0, 4, 0), P3(3, 4, 0), P3(0, 0, 4)>>
\* ascending index lists of length N into Points
RECURSIVE Ascending(_, _)
Ascending(N, lo) ==
    IF N = 0 THEN {<<>>}
    ELSE UNION {{<<k>> \o t : t \in Ascending(N - 1, k + 1)} : k \in lo..Len(Points)}
\* geometries of N distinct atoms all of whose distances are rational
Geometries(N) ==
    {g \in {Arr([i \in 1..N |-> Points[ix[i]]]) : ix \in Ascending(N, 1)} :
        \A i \in 0..(N - 1) : \A j \in 0..(N - 1) : i < j => IsRSquare(Dist2(i, j, g))}

\* charges: the first k atoms carry -1, the others 2
ChargeLists(N) == {Arr([i \in 1..N |-> RI(IF i <= k THEN -1 ELSE 2)]) : k \in 0..N}
TypeLists(N) == [1..N -> {"a", "b"}]
\* <<atypes, exclude_types>>: no type excluded, or type "a" excluded
TypeCases(N) ==
    {<<Arr([i \in 1..N |-> "b"]), <<>>>>} \cup {<<Arr(t), <<"a">>>> : t \in TypeLists(N)}
\* exclude_pairs: no pair, or one pair of indices in either order, in range or not
ExcludeLists(N) ==
    {<<>>, <<<<0, N>>>>, <<<<N, 1>>>>, <<<<-1, 0>>>>} \cup
    {<<p>> : p \in {q \in (0..(N - 1)) \X (0..(N - 1)) : q[1] # q[2]}}

\* CoulombModel.__init__ on the data of a sample, and the arguments electrostatics
\* is called with
PairwiseInit ==
    \E N \in 2..MaxPairAtoms :
    \E g \in Geometries(N), q \in ChargeLists(N), tc \in TypeCases(N),
       pairs \in ExcludeLists(N) :
        /\ coords = g
        /\ charges = q
        /\ exclude_pairs = pairs
        /\ shift = Coulomb_get_energy(NewCoulomb(g, q, pairs), g, FALSE)
        /\ sample = [ac |-> q, ffatypes |-> tc[1], coordinates |-> g]
        /\ exclude_types = tc[2]

CoulombGetEnergy ==
    /\ ret = NoCall
    /\ \E c \in Geometries(Len(charges)), use_shift \in BOOLEAN :
        /\ ret' = Call("coulomb_get_energy", <<c, use_shift>>,
                       Ok(Coulomb_get_energy(Self, c, use_shift)), <<>>)
        /\ UNCHANGED <<hvars, cvars, evars>>

Electrostatics ==
    /\ ret = NoCall
    /\ ret' = Call("electrostatics", <<>>,
                   Ok(electrostatics(sample, exclude_pairs, exclude_types)), <<>>)
    /\ UNCHANGED <<hvars, cvars, evars>>

PInit == PairwiseInit /\ NoHarmonic /\ ret = NoCall
PNext == CoulombGetEnergy \/ Electrostatics \/ Return
SpecPairwise == PInit /\ [][PNext]_vars

-----------------------------------------------------------------------------
(* Claims about HarmonicModel, checked under SpecHarmonic *)

\* C2: get_energy(coords) fails with an error whenever the atom count of coords
\* differs from that of coords0; it never returns an energy for a mismatched shape.
C2_MismatchedShapeRaises ==
    (ret.op = "get_energy" /\ Len(ret.args) # Len(coords0)) => ret.status = "error"

\* C3: evaluated at the reference geometry, get_energy returns reference and
\* get_gradient returns gradient, elementwise.
C3_ReferenceValuesAtCoords0 ==
    /\ (ret.op = "get_energy" /\ ret.args = coords0)
          => (ret.status = "ok" /\ ret.value = reference)
    /\ (ret.op = "get_gradient" /\ ret.args = coords0)
          => (ret.status = "ok" /\ ret.value = gradient)

C3_Witness ==
    /\ ret.op = "get_energy" /\ ret.args = coords0 /\ ret.status = "ok"
    /\ ~IsDiagonal(hess)
    /\ gradient # Unflatten(ZeroVec(3 * Len(coords0)))
    /\ reference # Zero

\* the degrees of freedom (0-based) that a free_indices list names
FreeSet(free_indices) == {free_indices[k] : k \in 1..Len(free_indices)}

\* C4: get_constrained_hess(free_indices, spring=S) minus the stored Hessian is a
\* diagonal 3N x 3N matrix with 0 at every free index and S at every fixed index.
C4_ConstrainedHessIsDiagonalPenalty ==
    ret.op = "get_constrained_hess" =>
        /\ ret.status = "ok"
        /\ \A r \in 1..Len(hess) : \A c \in 1..Len(hess) :
              RSub(ret.value[r][c], hess[r][c]) =
                  IF r = c /\ (r - 1) \notin FreeSet(ret.args[1])
                  THEN ret.args[2] ELSE Zero

C4_Witness ==
    /\ ret.op = "get_constrained_hess" /\ ret.status = "ok"
    /\ Len(ret.args[1]) >= 2 /\ Len(ret.args[1]) < Len(hess)
    /\ ret.args[2] # Zero
    /\ ~IsDiagonal(hess)

\* the inverse weight the ridge rule gives an eigenvalue
RidgeWeight(lambda, rdg) ==
    IF RGt(RAbs(lambda), rdg) THEN Rat(lambda[2], lambda[1]) ELSE Zero
\* ev, iev and the pseudo-inverse P built on the eigenvectors vecs obey the rule
ObeysRidgeRule(ev, vecs, iev, P, rdg) ==
    \A i \in 1..Len(ev) :
        /\ IsFinite(iev[i])
        /\ iev[i] = RidgeWeight(ev[i], rdg)
        /\ MatVec(P, Column(vecs, i)) = Scale(RidgeWeight(ev[i], rdg), Column(vecs, i))

\* C8: in diagonalize_hess and in get_constrained_ihess an eigenvalue lambda gets
\* weight 1/lambda exactly when abs(lambda) > ridge and weight 0 otherwise (also
\* when abs(lambda) = ridge or lambda = 0); nothing divides by zero or raises.
C8_RidgeTruncation ==
    /\ ObeysRidgeRule(evals, evecs, ievals, ihess, ridge)
    /\ ret.op = "get_constrained_ihess" =>
          /\ ret.status = "ok"
          /\ ObeysRidgeRule(ret.locals.evals, ret.locals.evecs, ret.locals.ievals,
                            ret.value, ridge)

C8_Witness ==
    /\ ridge # Zero
    /\ \E i \in 1..Len(evals) : evals[i][1] < 0 /\ ievals[i] = RInv(evals[i])
    /\ \E i \in 1..Len(evals) : RAbs(evals[i]) = ridge /\ ievals[i] = Zero
    /\ ret.op = "get_constrained_ihess"
    /\ \E i \in 1..Len(evals) :
          RAbs(ret.locals.evals[i]) = ridge /\ ret.locals.ievals[i] = Zero
    /\ \E i \in 1..Len(evals) : ret.locals.evals[i][1] < 0 /\ ret.locals.ievals[i] # Zero

\* C10: the queries are read-only: no call changes coords0, gradient, hess,
\* reference, ridge, evals, evecs, ievals or ihess (the constrained pseudo-inverse
\* is not cached), and get_hessian returns the stored Hessian for every coords.
C10_QueriesAreReadOnly ==
    [][/\ hvars' = hvars
       /\ ret'.op = "get_hessian" => (ret'.status = "ok" /\ ret'.value = hess)]_vars

C10_Witness ==
    /\ ret.op = "get_constrained_ihess" /\ ret.status = "ok"
    /\ ret.value # ihess
    /\ ~IsDiagonal(ret.value)

-----------------------------------------------------------------------------
(* Claims about CoulombModel and electrostatics, checked under SpecPairwise *)

ListSet(L) == {L[k] : k \in 1..Len(L)}

\* the unordered atom pairs {i,j}, written <<i, j>> with j < i, that are not
\* skipped: neither type excluded, and the pair excluded in neither order
SelectedPairs(N, atypes, pairs, types) ==
    {p \in (0..(N - 1)) \X (0..(N - 1)) :
        /\ p[2] < p[1]
        /\ atypes[p[1] + 1] \notin ListSet(types)
        /\ atypes[p[2] + 1] \notin ListSet(types)
        /\ <<p[1], p[2]>> \notin ListSet(pairs)
        /\ <<p[2], p[1]>> \notin ListSet(pairs)}
SampleSelected == SelectedPairs(Len(sample.ac), sample.ffatypes, exclude_pairs, exclude_types)
\* the CoulombModel selects by pairs only
CoulombSelected == SelectedPairs(Len(charges), [i \in 1..Len(charges) |-> "b"], exclude_pairs, <<>>)

RECURSIVE PairwiseEnergy(_, _, _)
\* E = sum over the pairs of S of q_i*q_j/r_ij
PairwiseEnergy(q, x, S) ==
    IF S = {} THEN Zero
    ELSE LET p == CHOOSE p \in S : TRUE
         IN  RAdd(RDiv(RMul(q[p[1] + 1], q[p[2] + 1]), bond_value(p[1], p[2], x)),
                  PairwiseEnergy(q, x, S \ {p}))

\* d(q_i*q_j/r_ij)/dx_k = -q_i*q_j*(x_i - x_j)/r^3 on atom i, its negative on atom j
PairEnergyGradient(q, x, p, k) ==
    LET at == (k - 1) \div 3
        a == ((k - 1) % 3) + 1
        r == bond_value(p[1], p[2], x)
        d == RDiv(RMul(RMul(q[p[1] + 1], q[p[2] + 1]), Delta(p[1], p[2], x)[a]),
                  RMul(r, RMul(r, r)))
    IN  IF at = p[1] THEN RNeg(d) ELSE IF at = p[2] THEN d ELSE Zero

RECURSIVE EnergyGradient(_, _, _, _)
\* dE/dx_k, term by term
EnergyGradient(q, x, S, k) ==
    IF S = {} THEN Zero
    ELSE LET p == CHOOSE p \in S : TRUE
         IN  RAdd(PairEnergyGradient(q, x, p, k), EnergyGradient(q, x, S \ {p}, k))

\* the central finite difference of E along coordinate k, taken where the
\* displaced distances are rational
FDStep == Rat(1, 10)
Tolerance == Rat(1, 100)
Displace(x, k, h) ==
    Arr([i \in 1..Len(x) |-> Arr([a \in 1..3 |->
        IF 3 * (i - 1) + a = k THEN RAdd(x[i][a], h) ELSE x[i][a]])])
FDValid(x, S, k) ==
    \A p \in S : \A h \in {FDStep, RNeg(FDStep)} :
        IsRSquare(Dist2(p[1], p[2], Displace(x, k, h)))
FDGradient(q, x, S, k) ==
    RDiv(RSub(PairwiseEnergy(q, Displace(x, k, FDStep), S),
              PairwiseEnergy(q, Displace(x, k, RNeg(FDStep)), S)),
         RMul(RI(2), FDStep))
Within(x, y, tol) == ~RGt(RAbs(RSub(x, y)), tol)

\* the analytic gradient of E agrees with its finite difference
GradientMatchesFiniteDifference ==
    \A k \in 1..(3 * Len(sample.ac)) :
        FDValid(sample.coordinates, SampleSelected, k) =>
            Within(EnergyGradient(sample.ac, sample.coordinates, SampleSelected, k),
                   FDGradient(sample.ac, sample.coordinates, SampleSelected, k),
                   Tolerance)

\* a sample and a coordinate where the finite difference can be taken and is not 0
FiniteDifferenceTaken ==
    \E k \in 1..(3 * Len(sample.ac)) :
        /\ Len(sample.ac) = 3
        /\ FDValid(sample.coordinates, SampleSelected, k)
        /\ FDGradient(sample.ac, sample.coordinates, SampleSelected, k) # Zero

\* what electrostatics returns as forces is the gradient of E itself
ForcesAreTheGradient ==
    ret.op = "electrostatics" =>
        \A k \in 1..(3 * Len(sample.ac)) :
            ret.value[1][k] =
                EnergyGradient(sample.ac, sample.coordinates, SampleSelected, k)

\* C1: the forces electrostatics returns are the negative gradient of the energy
\* E = sum over the non-skipped pairs of q_i*q_j/r_ij: forces[k] = -dE/dx_k for
\* every degree of freedom k, analytically and against the finite difference.
C1_ForcesAreNegativeGradient ==
    ret.op = "electrostatics" =>
        \A k \in 1..(3 * Len(sample.ac)) :
            /\ ret.value[1][k] =
                  RNeg(EnergyGradient(sample.ac, sample.coordinates, SampleSelected, k))
            /\ FDValid(sample.coordinates, SampleSelected, k) =>
                  Within(ret.value[1][k],
                         RNeg(FDGradient(sample.ac, sample.coordinates, SampleSelected, k)),
                         Tolerance)

\* C5: the stored shift is the unshifted energy, exclusions applied, at the
\* reference coordinates, and get_energy(coords0, shift=True) is 0, also after
\* other get_energy calls.
C5_ShiftZeroesReferenceEnergy ==
    /\ shift = PairwiseEnergy(charges, coords, CoulombSelected)
    /\ (ret.op = "coulomb_get_energy" /\ ret.args = <<coords, TRUE>>) => ret.value = Zero

C5_Witness ==
    /\ ret.op = "coulomb_get_energy" /\ ret.args = <<coords, TRUE>>
    /\ shift # Zero
    /\ Len(charges) = 3
    /\ Cardinality(CoulombSelected) = 2

\* exclude_pairs with every pair written the other way round
Mirror(pairs) == Arr([k \in 1..Len(pairs) |-> <<pairs[k][2], pairs[k][1]>>])
MirrorSelf == [Self EXCEPT !.exclude_pairs = Mirror(exclude_pairs)]

\* C6: exclude_pairs=[[i,j]] and exclude_pairs=[[j,i]] give the same CoulombModel
\* shift and energies and the same electrostatics forces and Hessian.
C6_ExclusionOrderIndependent ==
    /\ shift = Coulomb_get_energy(NewCoulomb(coords, charges, Mirror(exclude_pairs)),
                                  coords, FALSE)
    /\ ret.op = "coulomb_get_energy" =>
          ret.value = Coulomb_get_energy(MirrorSelf, ret.args[1], ret.args[2])
    /\ ret.op = "electrostatics" =>
          ret.value = electrostatics(sample, Mirror(exclude_pairs), exclude_types)

C6_Witness ==
    /\ ret.op = "electrostatics"
    /\ exclude_pairs = <<<<0, 1>>>>
    /\ exclude_types = <<>>
    /\ ret.value # electrostatics(sample, <<>>, exclude_types)

OutOfRange(p, N) == \E m \in 1..2 : p[m] < 0 \/ p[m] >= N

\* C7: an exclusion pair with an atom index out of range makes CoulombModel and
\* electrostatics fail with an error; it is never silently ignored.
C7_InvalidExclusionRaises ==
    (\E p \in ListSet(exclude_pairs) : OutOfRange(p, Len(charges))) =>
        /\ ret.op = "coulomb_get_energy" => ret.status = "error"
        /\ ret.op = "electrostatics" => ret.status = "error"

RECURSIVE SumForces(_, _)
SumForces(smp, S) ==
    IF S = {} THEN ZeroVec(3 * Len(smp.ac))
    ELSE LET p == CHOOSE p \in S : TRUE
         IN  VecAdd(PairForces(smp, p[1], p[2]), SumForces(smp, S \ {p}))
RECURSIVE SumHess(_, _)
SumHess(smp, S) ==
    IF S = {} THEN ZeroMat(3 * Len(smp.ac))
    ELSE LET p == CHOOSE p \in S : TRUE
         IN  MatAdd(PairHess(smp, p[1], p[2]), SumHess(smp, S \ {p}))

\* C9: an unordered pair {i,j} adds its term to forces and hess exactly once if
\* neither atom's type is excluded and the pair is excluded in neither order, and
\* adds nothing otherwise; with every pair skipped the result is all zero.
C9_PairSelection ==
    ret.op = "electrostatics" =>
        /\ ret.value[1] = SumForces(sample, SampleSelected)
        /\ ret.value[2] = SumHess(sample, SampleSelected)
        /\ SampleSelected = {} =>
              ret.value = <<ZeroVec(3 * Len(sample.ac)), ZeroMat(3 * Len(sample.ac))>>

C9_Witness ==
    /\ ret.op = "electrostatics"
    /\ Len(sample.ac) = 3
    /\ exclude_types = <<"a">>
    /\ sample.ffatypes = <<"b", "a", "b">>
    /\ SampleSelected = {<<2, 0>>}
    /\ ret.value[1] # ZeroVec(9)

====
